---- MODULE Spec2Model ----
(***************************************************************************)
(* A model of flag.hh, the command-line flag parser of flag-cpp.           *)
(*                                                                         *)
(* Text is modelled as a sequence of bytes, each byte a one-character      *)
(* string, so that argv[i][0], find('='), substr and the codepoint walk    *)
(* are computed the way the code computes them.  C indices are kept        *)
(* 0-based: argv[k] of the code is argv[k + 1] of the model.               *)
(*                                                                         *)
(* The host program registers (in this order) the boolean options `a` and  *)
(* `b`, the callback option `c`, the 8-bit unsigned option `n`, and the    *)
(* alias `cc` of `c`.  No help function is installed.                      *)
(***************************************************************************)
EXTENDS Integers, Sequences, FiniteSets, TLC

VARIABLES
  pc,             \* where the host program is: "host", "registered", then
                  \* inside parse "scan" or "drain", then "done", "exit1"
                  \* (std::exit (1)) or "thrown" (an exception left parse)
  options,        \* detail::options
  aliases,        \* detail::aliases
  group_singles,  \* detail::group_singles
  dest,           \* the host's variables bound to the options a, b and n
  atReg,          \* history: dest when the options were registered
  atBegin,        \* history: dest when parse was called
  argv,           \* the argument vector, argv[0] first
  i,              \* the cursor of parse
  args,           \* the argv positions handed to collect_arg, in order
  calls,          \* history: the parse_arg calls made, in order
  diags,          \* the diagnostics written by complain, in order
  role,           \* history: what parse read each argv element as
  sim             \* the two names jaro_winkler_similarity is called with,
                  \* and its result once it has returned

vars == <<pc, options, aliases, group_singles, dest, atReg, atBegin,
          argv, i, args, calls, diags, role, sim>>

(***************************************************************************)
(* Bounds                                                                  *)
(***************************************************************************)
\* largest number of argv elements after the program name
MaxArgs == 3

\* longest name handed to the similarity functions
MaxName == 4

\* std::numeric_limits<std::uint8_t>::max (), the destination of option n
UnsignedMax == 255

(***************************************************************************)
(* Text                                                                    *)
(***************************************************************************)
\* the terminating NUL of a C string
NUL == "\\0"

\* a null `const char *`
NullArg == <<"(null)">>

\* s[k] of a C string s, k <= strlen (s)
CharAt(s, k) == IF k < Len(s) THEN s[k + 1] ELSE NUL

\* std::string_view::substr (from) and substr (from, count), 0-based
SubstrFrom(s, from) == SubSeq(s, from + 1, Len(s))
Substr(s, from, count) == SubSeq(s, from + 1, from + count)

\* std::string_view::find (ch): 0-based position, or -1 for npos
Find(s, ch) ==
  IF \E k \in 1..Len(s) : s[k] = ch
  THEN (CHOOSE k \in 1..Len(s) : s[k] = ch /\ \A j \in 1..(k - 1) : s[j] # ch) - 1
  ELSE -1

\* bytes 10xxxxxx: (s[i] & 0xC0) == 0x80.  None of the bytes the model
\* draws argv from has its high bit set.
IsContinuation(byte) == byte \in {"\\x80", "\\xBF"}

(***************************************************************************)
(* The argument vectors                                                    *)
(***************************************************************************)
Program == <<"p">>

Tokens ==
  { <<>>,
    <<"-">>, <<"-", "-">>,
    <<"-", "a">>,
    <<"-", "a", "=">>, <<"-", "a", "=", "y">>,
    <<"-", "a", "b", "c">>,
    <<"-", "c">>,
    <<"-", "-", "c", "c">>,
    <<"-", "n">>,
    <<"-", "n", "=">>,
    <<"2", "5", "5">>, <<"2", "5", "6">>,
    <<"y", "e", "s">> }

RECURSIVE SeqsUpTo(_, _)
SeqsUpTo(S, n) ==
  IF n = 0 THEN { <<>> }
  ELSE LET shorter == SeqsUpTo(S, n - 1)
       IN  shorter \cup { Append(s, t) : s \in { x \in shorter : Len(x) = n - 1 }, t \in S }

ArgVectors == { <<Program>> \o rest : rest \in SeqsUpTo(Tokens, MaxArgs) }

(***************************************************************************)
(* Type conversion                                                         *)
(***************************************************************************)
IsSpace(ch) == ch \in {" ", "\t", "\n"}

\* value of ch as a digit, or 99 when ch is no digit of any base up to 16
DigitVal(ch) ==
  CASE ch = "0" -> 0  [] ch = "1" -> 1  [] ch = "2" -> 2  [] ch = "3" -> 3
    [] ch = "4" -> 4  [] ch = "5" -> 5  [] ch = "6" -> 6  [] ch = "7" -> 7
    [] ch = "8" -> 8  [] ch = "9" -> 9
    [] ch \in {"a", "A"} -> 10  [] ch \in {"b", "B"} -> 11
    [] ch \in {"c", "C"} -> 12  [] ch \in {"d", "D"} -> 13
    [] ch \in {"e", "E"} -> 14  [] ch \in {"f", "F"} -> 15
    [] OTHER -> 99

RECURSIVE SkipSpace(_, _)
SkipSpace(s, k) == IF IsSpace(CharAt(s, k)) THEN SkipSpace(s, k + 1) ELSE k

RECURSIVE Accumulate(_, _, _, _)
Accumulate(s, k, base, acc) ==
  IF DigitVal(CharAt(s, k)) < base
  THEN Accumulate(s, k + 1, base, acc * base + DigitVal(CharAt(s, k)))
  ELSE acc

\* the digits of strtoull, from position p: base 16 after 0x, base 8 after
\* 0, else base 10 (the base argument is 0)
Magnitude(s, p) ==
  IF /\ CharAt(s, p) = "0"
     /\ CharAt(s, p + 1) \in {"x", "X"}
     /\ DigitVal(CharAt(s, p + 2)) < 16
  THEN Accumulate(s, p + 2, 16, 0)
  ELSE IF CharAt(s, p) = "0" THEN Accumulate(s, p, 8, 0)
  ELSE Accumulate(s, p, 10, 0)

\* the sign of strtoull at position p, then the digits
Signed(minus, mag) == [neg |-> minus /\ mag > 0, mag |-> mag]
FromSign(s, p) ==
  Signed(CharAt(s, p) = "-",
         Magnitude(s, IF CharAt(s, p) \in {"-", "+"} THEN p + 1 ELSE p))

\* std::strtoull (arg, nullptr, 0): leading white space, an optional sign,
\* the base taken from a 0x / 0 prefix, then the longest run of digits;
\* text without digits gives 0.  The result is the magnitude and whether a
\* minus sign negates it (in unsigned arithmetic, 2^64 - mag).  The texts
\* of the model are too short to reach the saturation at ULLONG_MAX.
strtoull(s) == FromSign(s, SkipSpace(s, 0))

\* `if (my_value > max) throw std::range_error; *value = static_cast<T>`
RangeChecked(my_value) ==
  IF my_value.neg \/ my_value.mag > UnsignedMax
  THEN [thrown |-> TRUE,  value |-> 0]
  ELSE [thrown |-> FALSE, value |-> my_value.mag]

\* Value_Type<std::uint8_t>::convert_arg
convert_arg(arg) == RangeChecked(strtoull(arg))

\* the host's callback of option c: accepts one of a fixed list of words
Accepted == { <<"y", "e", "s">> }
function_(arg) == arg \in Accepted

(***************************************************************************)
(* Option model                                                            *)
(***************************************************************************)
\* Option_Type<bool>: the constructor captures target_value_ = !*value_
BoolOption(flag, value) ==
  [flag_ |-> flag, kind |-> "bool", target_value_ |-> ~value]

\* Option_Type<T> of an unsigned integer and Option_Type<Option_Callable>
UnsignedOption(flag) == [flag_ |-> flag, kind |-> "unsigned", target_value_ |-> FALSE]
CallbackOption(flag) == [flag_ |-> flag, kind |-> "callback", target_value_ |-> FALSE]

takes_value(option) == option.kind # "bool"

\* the destination an option is bound to (value_), named by its flag
value_(option) == option.flag_[1]

\* Option_Type<T>::parse_arg after convert_arg: the exception passes
\* through, else the value is in *value_ and the result is true
Converted(option, d, c) ==
  IF c.thrown
  THEN [dest |-> d, ok |-> FALSE, thrown |-> TRUE]
  ELSE [dest |-> [d EXCEPT ![value_(option)] = c.value], ok |-> TRUE, thrown |-> FALSE]

\* parse_arg with a boolean option that flips its destination on every
\* match instead of storing the captured target value
parse_arg_Toggle(option, arg, d) ==
  CASE option.kind = "bool" ->
         [dest |-> [d EXCEPT ![value_(option)] = ~@], ok |-> TRUE, thrown |-> FALSE]
    [] option.kind = "unsigned" -> Converted(option, d, convert_arg(arg))
    [] OTHER -> [dest |-> d, ok |-> function_(arg), thrown |-> FALSE]

\* Option_Base::parse_arg of the three kinds: the destinations after the
\* call, whether it returned true, and whether the conversion threw
parse_arg(option, arg, d) ==
  CASE option.kind = "bool" ->
         [dest |-> [d EXCEPT ![value_(option)] = option.target_value_],
          ok |-> TRUE, thrown |-> FALSE]
    [] option.kind = "unsigned" -> Converted(option, d, convert_arg(arg))
    [] OTHER -> [dest |-> d, ok |-> function_(arg), thrown |-> FALSE]

\* do_find: position of the first option whose flag_ equals flag, 0 for end ()
do_find(flag) ==
  IF \E k \in 1..Len(options) : options[k].flag_ = flag
  THEN CHOOSE k \in 1..Len(options) :
         /\ options[k].flag_ = flag
         /\ \A j \in 1..(k - 1) : options[j].flag_ # flag
  ELSE 0

\* find_option after the first do_find: the alias table is consulted only
\* on a miss
ViaAlias(flag, it) ==
  IF it # 0 THEN it
  ELSE IF DOMAIN aliases = {} THEN 0
  ELSE IF flag \notin DOMAIN aliases THEN 0
  ELSE do_find(aliases[flag])

\* find_option: position of the option in options, 0 for nullptr
find_option(flag) == ViaAlias(flag, do_find(flag))

(***************************************************************************)
(* process_flag                                                            *)
(***************************************************************************)
Ok == "Ok"
Invalid_Option == "Invalid_Option"
Missing_Value == "Missing_Value"
Unexpected_Value == "Unexpected_Value"
Invalid_Value == "Invalid_Value"

\* What one call of process_flag leaves: its result, value and argind
\* (both passed by reference), the destinations, the log of parse_arg
\* calls, the argv positions taken as values, and whether an exception
\* left the call.
Result(result, value, argind, d, cl, rl, thrown) ==
  [result |-> result, value |-> value, argind |-> argind,
   dest |-> d, calls |-> cl, role |-> rl, thrown |-> thrown]

\* process_flag after option->parse_arg (val), p being what the call did
Parsed(option, val, argind, cl, rl, p) ==
  Result(IF p.ok THEN Ok ELSE Invalid_Value, val, argind, p.dest,
         Append(cl, [flag |-> option.flag_, arg |-> val, at |-> 0]),
         rl, p.thrown)

\* process_flag for the option found
Found(option, value, argind, argc, av, d, cl, rl) ==
  IF takes_value(option)
  THEN IF value = <<>>
       THEN IF (argind + 1) < argc
            THEN Parsed(option, av[argind + 2], argind + 1, cl,
                        [rl EXCEPT ![argind + 2] = "value"],
                        parse_arg(option, av[argind + 2], d))
            ELSE Result(Missing_Value, value, argind, d, cl, rl, FALSE)
       ELSE Parsed(option, value, argind, cl, rl, parse_arg(option, value, d))
  ELSE IF value # <<>>
       THEN Result(Unexpected_Value, value, argind, d, cl, rl, FALSE)
       ELSE [Parsed(option, NullArg, argind, cl, rl, parse_arg(option, NullArg, d))
               EXCEPT !.value = value]

\* process_flag after find_option (o = 0 for nullptr)
Looked(o, value, argind, argc, av, d, cl, rl) ==
  IF o = 0
  THEN Result(Invalid_Option, value, argind, d, cl, rl, FALSE)
  ELSE Found(options[o], value, argind, argc, av, d, cl, rl)

\* One call of process_flag
process_flag(flag, value, argind, argc, av, d, cl, rl) ==
  Looked(find_option(flag), value, argind, argc, av, d, cl, rl)

(***************************************************************************)
(* Short-flag groups                                                       *)
(***************************************************************************)
\* iter_codepoints: the pieces of s handed to f, in order; the last piece
\* is the one passed with is_last.  A piece ends before every byte after
\* the first that is not a continuation byte.
RECURSIVE CodepointsFrom(_, _, _)
CodepointsFrom(s, begin, k) ==
  IF ~(k < Len(s)) THEN << SubstrFrom(s, begin) >>
  ELSE IF ~IsContinuation(CharAt(s, k))
       THEN << Substr(s, begin, k - begin) >> \o CodepointsFrom(s, k, k + 1)
       ELSE CodepointsFrom(s, begin, k + 1)

iter_codepoints(s) == CodepointsFrom(s, 0, 1)

\* is_valid_single after find_option (opt = 0 for nullptr)
ValidFound(opt, is_last) ==
  IF opt # 0 /\ (~takes_value(options[opt]) \/ is_last) THEN Ok ELSE Invalid_Option

is_valid_single(flag, is_last) == ValidFound(find_option(flag), is_last)

\* iter_codepoints (flag, is_valid_single) == Ok: the walk stops at the
\* first piece that is not Ok
AllValid(cps) ==
  \A k \in 1..Len(cps) : is_valid_single(cps[k], k = Len(cps)) = Ok

is_valid_group(flag) == AllValid(iter_codepoints(flag))

\* process_group: the members before the last are processed with the dummy
\* value, argind and argv; the walk stops at the first result that is not
\* Ok.  value is the callee's own copy; argind is the caller's.
RECURSIVE GroupWalk(_, _, _, _, _, _, _, _, _)
RECURSIVE GroupNext(_, _, _, _, _, _, _)

\* process_group that processes the last member only
GroupWalk_LastOnly(cps, k, value, argind, argc, av, d, cl, rl) ==
  [last_flag |-> cps[Len(cps)],
   r |-> process_flag(cps[Len(cps)], value, argind, argc, av, d, cl, rl)]

GroupWalk(cps, k, value, argind, argc, av, d, cl, rl) ==
  IF k = Len(cps)
  THEN [last_flag |-> cps[k],
        r |-> process_flag(cps[k], value, argind, argc, av, d, cl, rl)]
  ELSE GroupNext(cps, k, value, argind, argc, av,
                 process_flag(cps[k], <<>>, 0, 0, <<>>, d, cl, rl))

\* after a member r that is not the last
GroupNext(cps, k, value, argind, argc, av, r) ==
  IF r.thrown \/ r.result # Ok
  THEN [last_flag |-> <<>>, r |-> [r EXCEPT !.value = value, !.argind = argind]]
  ELSE GroupWalk(cps, k + 1, value, argind, argc, av, r.dest, r.calls, r.role)

process_group(flags, value, argind, argc, av, d, cl, rl) ==
  GroupWalk(iter_codepoints(flags), 1, value, argind, argc, av, d, cl, rl)

(***************************************************************************)
(* Similarity                                                              *)
(***************************************************************************)
\* A score is kept as an exact fraction num / den, den > 0.  The code
\* computes in double; the comparisons made on scores here are between
\* values that differ by far more than a rounding error.
Ratio(num, den) == [num |-> num, den |-> den]

\* n1 / d1 <= n2 / d2 for d1, d2 > 0, by comparing the whole parts and then
\* the inverted remainders, so that no product leaves the integer width
RECURSIVE LeqFrac(_, _, _, _)
LeqFrac(n1, d1, n2, d2) ==
  IF n1 \div d1 # n2 \div d2 THEN n1 \div d1 < n2 \div d2
  ELSE IF n1 % d1 = 0 THEN TRUE
  ELSE IF n2 % d2 = 0 THEN FALSE
  ELSE LeqFrac(d2, n2 % d2, d1, n1 % d1)

Leq(x, y) == LeqFrac(x.num, x.den, y.num, y.den)
Zero == Ratio(0, 1)
One == Ratio(1, 1)

Max(x, y) == IF x >= y THEN x ELSE y
Min(x, y) == IF x <= y THEN x ELSE y

\* the inner loop of jaro_similarity: the first j in lo..hi with b[j] = c
\* that is not used yet, -1 when there is none
FirstMatch(b, c, used, lo, hi) ==
  IF \E j \in lo..hi : b[j + 1] = c /\ j \notin used
  THEN CHOOSE j \in lo..hi :
         /\ b[j + 1] = c /\ j \notin used
         /\ \A h \in lo..(j - 1) : ~(b[h + 1] = c /\ h \notin used)
  ELSE -1

\* the outer loop of jaro_similarity from position k of a on: the numbers
\* of matches and of transpositions when it ends
RECURSIVE JaroLoop(_, _, _, _, _, _, _, _)
RECURSIVE JaroMatched(_, _, _, _, _, _, _, _, _)

JaroLoop(a, b, k, match_range, used, b_pos, matches, transpositions) ==
  IF ~(k < Len(a))
  THEN [matches |-> matches, transpositions |-> transpositions]
  ELSE JaroMatched(a, b, k, match_range, used, b_pos, matches, transpositions,
                   FirstMatch(b, a[k + 1], used,
                              IF k > match_range THEN k - match_range ELSE 0,
                              Min(k + match_range, Len(b) - 1)))

\* after the inner loop for a[k] ended at j
JaroMatched(a, b, k, match_range, used, b_pos, matches, transpositions, j) ==
  IF j = -1
  THEN JaroLoop(a, b, k + 1, match_range, used, b_pos, matches, transpositions)
  ELSE JaroLoop(a, b, k + 1, match_range, used \cup {j}, j, matches + 1,
                IF j < b_pos THEN transpositions + 1 ELSE transpositions)

\* 0.333 * (matches / |a| + matches / |b| + (matches - transpositions) / matches)
JaroMean(la, lb, m, t) ==
  IF m = 0 THEN Zero
  ELSE Ratio(333 * (m * m * lb + m * m * la + (m - t) * la * lb),
             1000 * la * lb * m)

JaroCounted(a, b, c) == JaroMean(Len(a), Len(b), c.matches, c.transpositions)

jaro_similarity(a, b) ==
  IF a = <<>> /\ b = <<>> THEN One
  ELSE IF a = <<>> \/ b = <<>> THEN Zero
  ELSE IF Len(a) = 1 /\ Len(b) = 1 THEN (IF a[1] = b[1] THEN One ELSE Zero)
  ELSE JaroCounted(a, b,
         JaroLoop(a, b, 0, Max(Len(a), Len(b)) \div 2 - 1, {}, 0, 0, 0))

\* std::mismatch: the length of the common prefix of a and b
RECURSIVE MismatchFrom(_, _, _)
MismatchFrom(a, b, k) ==
  IF k < Len(a) /\ k < Len(b) /\ a[k + 1] = b[k + 1]
  THEN MismatchFrom(a, b, k + 1)
  ELSE k

\* sim_j - l * SCALING_FACTOR * (1.0 - sim_j), SCALING_FACTOR = 0.1
Winkler(sim_j, l) ==
  Ratio(10 * sim_j.num - l * (sim_j.den - sim_j.num), 10 * sim_j.den)

\* `return sim_w <= 1.0 ? sim_w : 1.0`
Capped(sim_w) == IF Leq(sim_w, One) THEN sim_w ELSE One

jaro_winkler_similarity(a, b) ==
  Capped(Winkler(jaro_similarity(a, b), MismatchFrom(a, b, 0)))

(***************************************************************************)
(* Diagnostics                                                             *)
(***************************************************************************)
\* complain: one diagnostic written to std::cerr, kept as what the message
\* is built from (the suggestion of look_for_similar and the text of
\* error_description are not part of the record).  at is history: the argv
\* position of the flag token the parser was processing.
complain(about, flag, value, double_dash, at) ==
  [about |-> about, dash |-> IF double_dash THEN <<"-", "-">> ELSE <<"-">>,
   flag |-> flag, value |-> value, at |-> at]

\* argv[k][1] == '-'.  When argv[k] is the empty string, index 1 is past
\* its terminating NUL: the read is out of bounds and oob is what it finds.
SecondIsDash(av, k, oob) ==
  IF Len(av[k + 1]) = 0 THEN oob ELSE CharAt(av[k + 1], 1) = "-"

(***************************************************************************)
(* parse                                                                   *)
(***************************************************************************)
\* collect_arg that puts the argument in front of those collected before
collect_arg_Front(st, k) == [st EXCEPT !.args = <<k>> \o @]

\* collect_arg (argv[k]): the collector receives the pointer argv[k]; the
\* positional output is kept as the list of those argv positions
collect_arg(st, k) == [st EXCEPT !.args = Append(@, k)]

\* history: the calls logged after the first `from` are those made for the
\* flag token at argv[at]
Stamp(cl, from, at) ==
  [k \in 1..Len(cl) |-> IF k > from THEN [cl[k] EXCEPT !.at = at] ELSE cl[k]]

\* parse after the calls made for the flag token at argv[st.i]: r is what
\* the last process_flag left, written are the diagnostics, to is where
\* parse goes
After(st, r, written, to) ==
  [st EXCEPT !.i     = IF to = "scan" THEN r.argind + 1 ELSE r.argind,
             !.dest  = r.dest,
             !.calls = Stamp(r.calls, Len(st.calls), st.i),
             !.role  = r.role,
             !.diags = @ \o written,
             !.pc    = to]

\* parse after process_group returned g: `continue`, or both complaints
\* (the group's last flag, then the whole token) and std::exit (1).  The
\* value reported is the one parse holds, r1.value.
AfterGroup(st, flag, r1, g, oob) ==
  IF g.r.thrown THEN After(st, g.r, <<>>, "thrown")
  ELSE IF g.r.result = Ok THEN After(st, g.r, <<>>, "scan")
  ELSE After(st, g.r,
             << complain(g.r.result, g.last_flag, r1.value,
                         SecondIsDash(st.argv, g.r.argind, oob), st.i),
                complain(r1.result, flag, r1.value,
                         SecondIsDash(st.argv, g.r.argind, oob), st.i) >>,
             "exit1")

\* parse that complains about a failed token and goes on with the next one
AfterFlag_NoExit(st, flag, r1, oob) ==
  IF r1.thrown THEN After(st, r1, <<>>, "thrown")
  ELSE IF r1.result = Ok THEN After(st, r1, <<>>, "scan")
  ELSE IF group_singles /\ is_valid_group(flag)
  THEN AfterGroup(st, flag, r1,
                  process_group(flag, r1.value, r1.argind, Len(st.argv), st.argv,
                                r1.dest, r1.calls, r1.role),
                  oob)
  ELSE After(st, r1,
             << complain(r1.result, flag, r1.value,
                         SecondIsDash(st.argv, r1.argind, oob), st.i) >>,
             "scan")

\* parse after process_flag returned r1: the next token, the group retry,
\* or complain and std::exit (1)
AfterFlag(st, flag, r1, oob) ==
  IF r1.thrown THEN After(st, r1, <<>>, "thrown")
  ELSE IF r1.result = Ok THEN After(st, r1, <<>>, "scan")
  ELSE IF group_singles /\ is_valid_group(flag)
  THEN AfterGroup(st, flag, r1,
                  process_group(flag, r1.value, r1.argind, Len(st.argv), st.argv,
                                r1.dest, r1.calls, r1.role),
                  oob)
  ELSE After(st, r1,
             << complain(r1.result, flag, r1.value,
                         SecondIsDash(st.argv, r1.argind, oob), st.i) >>,
             "exit1")

\* parse from process_flag on, for the flag name and inline value of the
\* token at argv[st.i]
Process(st, flag, value, oob) ==
  AfterFlag(st, flag,
            process_flag(flag, value, st.i, Len(st.argv), st.argv, st.dest,
                         st.calls, [st.role EXCEPT ![st.i + 1] = "flag"]),
            oob)

\* the split of arg at the first '=' (eq_pos = -1 for npos)
Split(st, arg, eq_pos, oob) ==
  IF eq_pos = -1
  THEN Process(st, arg, <<>>, oob)
  ELSE Process(st, Substr(arg, 0, eq_pos), SubstrFrom(arg, eq_pos + 1), oob)

\* The body of the scanning loop for the flag token at argv[st.i], after
\* the terminator test
ScanFlag(st, arg, oob) == Split(st, arg, Find(arg, "="), oob)

\* One iteration of `for (i = 1; i < argc; ++i)`
ScanStep(st, oob) ==
  LET tok == st.argv[st.i + 1]
  IN  IF CharAt(tok, 0) = "-"
      THEN LET arg == SubstrFrom(tok, 1 + (IF CharAt(tok, 1) = "-" THEN 1 ELSE 0))
           IN  IF arg = <<>>
               THEN [st EXCEPT !.i = @ + 1, !.pc = "drain",
                               !.role = [@ EXCEPT ![st.i + 1] = "terminator"]]
               ELSE ScanFlag(st, arg, oob)
      ELSE [collect_arg(st, st.i) EXCEPT !.i = @ + 1]

\* a second loop that goes on scanning for flags
DrainStep_Scan(st) == ScanStep(st, FALSE)

\* One iteration of the loop that collects what follows the terminator
DrainStep(st) == [collect_arg(st, st.i) EXCEPT !.i = @ + 1]

\* parse (argc, argv) on entry: i = 1, nothing collected
Entry(av, d) ==
  [pc |-> "scan", argv |-> av, i |-> 1, dest |-> d, args |-> <<>>,
   calls |-> <<>>, diags |-> <<>>, role |-> [k \in 1..Len(av) |-> "none"]]

\* parse run to its end: the state in which it returns ("done"), calls
\* std::exit (1) ("exit1") or is left by an exception ("thrown")
RECURSIVE RunFrom(_, _)
RunFrom(st, oob) ==
  IF st.pc \notin {"scan", "drain"} THEN st
  ELSE IF ~(st.i < Len(st.argv)) THEN [st EXCEPT !.pc = "done"]
  ELSE IF st.pc = "scan" THEN RunFrom(ScanStep(st, oob), oob)
  ELSE RunFrom(DrainStep(st), oob)

parse(av, d, oob) == RunFrom(Entry(av, d), oob)

\* the positional output as the vector-returning parse builds it
Positional(st) == [k \in 1..Len(st.args) |-> st.argv[st.args[k] + 1]]

(***************************************************************************)
(* The state machine                                                       *)
(***************************************************************************)
FlagA == <<"a">>
FlagB == <<"b">>
FlagC == <<"c">>
FlagN == <<"n">>
AliasCC == <<"c", "c">>

State == [pc |-> pc, argv |-> argv, i |-> i, dest |-> dest, args |-> args,
          calls |-> calls, diags |-> diags, role |-> role]

Goto(st) ==
  /\ pc' = st.pc
  /\ i' = st.i
  /\ dest' = st.dest
  /\ args' = st.args
  /\ calls' = st.calls
  /\ diags' = st.diags
  /\ role' = st.role
  /\ UNCHANGED <<sim, options, aliases, group_singles, atReg, atBegin, argv>>

\* jaro_winkler_similarity has not been called
NoCall == [a |-> <<>>, b |-> <<>>, returned |-> FALSE, sim_w |-> Zero]

\* The host's variables before registration
Init ==
  /\ pc = "host"
  /\ options = <<>>
  /\ aliases = <<>>
  /\ group_singles = FALSE
  /\ dest \in [a : BOOLEAN, b : {FALSE}, n : {5}]
  /\ atReg = dest
  /\ atBegin = dest
  /\ argv = <<Program>>
  /\ i = 0
  /\ args = <<>>
  /\ calls = <<>>
  /\ diags = <<>>
  /\ role = <<"none">>
  /\ sim = NoCall

\* flag::add of a, b, c, n and flag::alias ("c", "cc")
Register ==
  /\ pc = "host"
  /\ options' = << BoolOption(FlagA, dest.a), BoolOption(FlagB, dest.b),
                   CallbackOption(FlagC), UnsignedOption(FlagN) >>
  /\ aliases' = [x \in {AliasCC} |-> FlagC]
  /\ atReg' = dest
  /\ pc' = "registered"
  /\ UNCHANGED <<sim, group_singles, dest, atBegin, argv, i, args, calls, diags, role>>

\* The host assigns to the variable bound to option a after registering it
Mutate ==
  /\ pc = "registered"
  /\ dest' = [dest EXCEPT !.a = ~@]
  /\ UNCHANGED <<sim, pc, options, aliases, group_singles, atReg, atBegin,
                 argv, i, args, calls, diags, role>>

\* flag::allow_grouping (true)
AllowGrouping ==
  /\ pc = "registered"
  /\ ~group_singles
  /\ group_singles' = TRUE
  /\ UNCHANGED <<sim, pc, options, aliases, dest, atReg, atBegin,
                 argv, i, args, calls, diags, role>>

\* The host calls flag::parse (argc, argv)
Begin ==
  /\ pc = "registered"
  /\ \E av \in ArgVectors :
       /\ argv' = av
       /\ role' = Entry(av, dest).role
  /\ pc' = "scan"
  /\ i' = 1
  /\ atBegin' = dest
  /\ UNCHANGED <<sim, options, aliases, group_singles, dest, atReg, args, calls, diags>>

\* argv[i] does not begin with '-'
ScanPositional ==
  /\ pc = "scan" /\ i < Len(argv)
  /\ CharAt(argv[i + 1], 0) # "-"
  /\ Goto(ScanStep(State, FALSE))

\* argv[i] is `-` or `--`
ScanTerminator ==
  /\ pc = "scan" /\ i < Len(argv)
  /\ argv[i + 1] \in { <<"-">>, <<"-", "-">> }
  /\ Goto(ScanStep(State, FALSE))

\* argv[i] is a flag token
ScanOption ==
  /\ pc = "scan" /\ i < Len(argv)
  /\ CharAt(argv[i + 1], 0) = "-"
  /\ argv[i + 1] \notin { <<"-">>, <<"-", "-">> }
  /\ \E oob \in BOOLEAN : Goto(ScanStep(State, oob))

\* argv[i] follows the terminator
Drain ==
  /\ pc = "drain" /\ i < Len(argv)
  /\ Goto(DrainStep(State))

\* both loops are over: parse returns
Return ==
  /\ pc \in {"scan", "drain"} /\ ~(i < Len(argv))
  /\ pc' = "done"
  /\ UNCHANGED <<sim, options, aliases, group_singles, dest, atReg, atBegin,
                 argv, i, args, calls, diags, role>>

Next ==
  \/ Register
  \/ Mutate
  \/ AllowGrouping
  \/ Begin
  \/ ScanPositional
  \/ ScanTerminator
  \/ ScanOption
  \/ Drain
  \/ Return

Spec == Init /\ [][Next]_vars

(***************************************************************************)
(* The similarity functions on their own                                   *)
(***************************************************************************)
NameBytes == {"a", "b", "c"}
Names == SeqsUpTo(NameBytes, MaxName)

\* look_for_similar is about to call jaro_winkler_similarity (a, b)
SimInit ==
  /\ pc = "host"
  /\ options = <<>>
  /\ aliases = <<>>
  /\ group_singles = FALSE
  /\ dest = [a |-> FALSE, b |-> FALSE, n |-> 5]
  /\ atReg = dest
  /\ atBegin = dest
  /\ argv = <<Program>>
  /\ i = 0
  /\ args = <<>>
  /\ calls = <<>>
  /\ diags = <<>>
  /\ role = <<"none">>
  /\ sim \in [a : Names, b : Names, returned : {FALSE}, sim_w : {Zero}]

\* jaro_winkler_similarity (a, b) returns
Score ==
  /\ ~sim.returned
  /\ sim' = [sim EXCEPT !.returned = TRUE,
                        !.sim_w = jaro_winkler_similarity(sim.a, sim.b)]
  /\ UNCHANGED <<pc, options, aliases, group_singles, dest, atReg, atBegin,
                 argv, i, args, calls, diags, role>>

SimNext == Score

SimSpec == SimInit /\ [][SimNext]_vars

(***************************************************************************)
(* Vocabulary of the properties                                            *)
(***************************************************************************)
Terminal(st) == st.pc \in {"done", "exit1", "thrown"}

\* how a parse ended: Ok when it returned, the result parse exits on (the
\* one reported last), or "thrown"
Outcome(st) ==
  IF st.pc = "done" THEN Ok
  ELSE IF st.pc = "thrown" THEN "thrown"
  ELSE st.diags[Len(st.diags)].about

\* the parts of the flag token tok: its dashes, its name, whether it has
\* an `=`, and the text after the `=`
Dashes(tok) == IF CharAt(tok, 1) = "-" THEN <<"-", "-">> ELSE <<"-">>
Bare(tok) == SubstrFrom(tok, Len(Dashes(tok)))
HasInline(tok) == Find(Bare(tok), "=") # -1
NameOf(tok) == IF HasInline(tok) THEN Substr(Bare(tok), 0, Find(Bare(tok), "=")) ELSE Bare(tok)
InlineOf(tok) == SubstrFrom(Bare(tok), Find(Bare(tok), "=") + 1)

\* the token at argv[k] was read as a flag token that names a value-taking
\* option and carries an inline value
InlineValueTokenAt(k) ==
  /\ role[k + 1] = "flag"
  /\ HasInline(argv[k + 1])
  /\ find_option(NameOf(argv[k + 1])) # 0
  /\ takes_value(options[find_option(NameOf(argv[k + 1]))])

SameOutcomeAndDest(st, twin) ==
  /\ Outcome(st) = Outcome(twin)
  /\ st.dest = twin.dest

\* the calls made for the flag token at argv[k], in order
CallsAt(k) == SelectSeq(calls, LAMBDA c : c.at = k)

\* C1: a conversion failure is handled inside parse: no exception leaves
\* parse, and every out-of-range value given to the integer option n ends
\* the parse with an Invalid_Value diagnostic and exit code 1, while an
\* in-range value is stored.
C1_ConversionFailureIsInvalidValue ==
  /\ pc # "thrown"
  /\ \A k \in 1..Len(calls) :
       calls[k].flag = FlagN =>
         IF convert_arg(calls[k].arg).thrown
         THEN /\ pc = "exit1"
              /\ \E j \in 1..Len(diags) :
                   diags[j].about = Invalid_Value /\ diags[j].value = calls[k].arg
         ELSE k = Len(calls) => dest.n = convert_arg(calls[k].arg).value

\* C2: for a value-taking scalar option, [prog, --name=v] and
\* [prog, --name, v] end with the same outcome and the same destinations,
\* for every text v, the empty text included.
C2_InlineSameAsNextToken ==
  (Terminal(State) /\ Len(argv) = 2 /\ InlineValueTokenAt(1)) =>
    SameOutcomeAndDest(State,
      parse(<< Program, Dashes(argv[2]) \o NameOf(argv[2]), InlineOf(argv[2]) >>,
            atBegin, FALSE))

\* C3: a token with an inline, empty value on a value-taking option is
\* processed with the empty text as its value: the outcome is never
\* Missing_Value, the conversion receives the empty text, and the next
\* argv token is not consumed as the value.
C3_InlineEmptyIsEmptyValue ==
  \A k \in 1..(Len(argv) - 1) :
    (InlineValueTokenAt(k) /\ InlineOf(argv[k + 1]) = <<>>) =>
      /\ \A j \in 1..Len(diags) :
           diags[j].at = k => diags[j].about # Missing_Value
      /\ \E j \in 1..Len(calls) : calls[j].at = k /\ calls[j].arg = <<>>
      /\ (k + 1 < Len(argv) => role[k + 2] # "value")

TokA == <<"-", "a">>
TokB == <<"-", "b">>
TokC == <<"-", "c">>
TokABC == <<"-", "a", "b", "c">>

\* the token at argv[k] is -abc and parse read it as a flag token
GroupAt(k) == argv[k + 1] = TokABC /\ role[k + 1] = "flag"

\* av with the one token at argv[k] replaced by the tokens in by
Replaced(av, k, by) == SubSeq(av, 1, k) \o by \o SubSeq(av, k + 2, Len(av))

\* st ended as twin did: the same ending, destinations and positional
\* output, the cursor as far from the end of argv
SameEnd(st, twin) ==
  /\ st.pc = twin.pc
  /\ st.dest = twin.dest
  /\ Positional(st) = Positional(twin)
  /\ Len(st.argv) - st.i = Len(twin.argv) - twin.i

\* C4: with grouping enabled, a vector ending in `-abc val` is parsed to
\* the same destinations, cursor and positional output as the vector with
\* `-a -b -c val` in its place, the handlers of a and b running in that
\* order before c is evaluated; with grouping disabled the token -abc
\* gives Invalid_Option and no handler runs for it.
C4_GroupSameAsSingles ==
  (Terminal(State) /\ Len(argv) >= 3 /\ GroupAt(Len(argv) - 2)) =>
    IF group_singles
    THEN /\ SameEnd(State, parse(Replaced(argv, Len(argv) - 2, <<TokA, TokB, TokC>>),
                                 atBegin, FALSE))
         /\ Len(CallsAt(Len(argv) - 2)) = 3
         /\ CallsAt(Len(argv) - 2)[1].flag = FlagA
         /\ CallsAt(Len(argv) - 2)[2].flag = FlagB
         /\ CallsAt(Len(argv) - 2)[3] =
              [flag |-> FlagC, arg |-> argv[Len(argv)], at |-> Len(argv) - 2]
    ELSE /\ pc = "exit1"
         /\ Outcome(State) = Invalid_Option
         /\ CallsAt(Len(argv) - 2) = <<>>
         /\ dest = parse(SubSeq(argv, 1, Len(argv) - 2), atBegin, FALSE).dest

C4_Witness ==
  /\ pc = "done" /\ group_singles
  /\ Len(argv) = 4 /\ GroupAt(2)
  /\ Len(args) = 1
  /\ dest.b = ~atReg.b

\* C5: once a boolean option has been matched, its destination is the
\* negation of the value it held when the option was registered, whatever
\* the host assigned to it in between and however often it is matched.
C5_BoolIsNegationOfRegistered ==
  \A k \in 1..Len(calls) :
    calls[k].flag \in {FlagA, FlagB} =>
      dest[calls[k].flag[1]] = ~atReg[calls[k].flag[1]]

C5_Witness ==
  /\ pc = "done"
  /\ atBegin.a # atReg.a
  /\ Len(SelectSeq(calls, LAMBDA c : c.flag = FlagA)) >= 2

\* the flag token tok with the alias it names replaced by the canonical name
Canonical(tok) ==
  IF NameOf(tok) \in DOMAIN aliases
  THEN Dashes(tok) \o aliases[NameOf(tok)]
         \o (IF HasInline(tok) THEN <<"=">> \o InlineOf(tok) ELSE <<>>)
  ELSE tok

\* av with the canonical name in every token that was read as a flag token
Canon(av, rl) ==
  [k \in 1..Len(av) |-> IF rl[k] = "flag" THEN Canonical(av[k]) ELSE av[k]]

UsesAlias ==
  \E k \in 1..Len(argv) : role[k] = "flag" /\ NameOf(argv[k]) \in DOMAIN aliases

SameResult(st, twin) ==
  /\ Outcome(st) = Outcome(twin)
  /\ st.dest = twin.dest
  /\ Positional(st) = Positional(twin)

\* C6: a vector that uses the alias cc ends with the same outcome, the
\* same destinations and the same positional output as the vector that
\* uses the canonical name c in its place.
C6_AliasSameAsCanonical ==
  (Terminal(State) /\ UsesAlias) =>
    SameResult(State, parse(Canon(argv, role), atBegin, FALSE))

\* C7: once parse has read a terminator, every later token is handed to
\* collect_arg, unchanged and in order, whatever it looks like: none is
\* read as a flag or as a value, no handler runs and no diagnostic is
\* written for it, and the terminator itself is not collected.
C7_AfterTerminatorAllPositional ==
  \A t \in 1..(Len(argv) - 1) :
    role[t + 1] = "terminator" =>
      /\ pc \in {"drain", "done"}
      /\ i > t
      /\ \A k \in (t + 1)..(Len(argv) - 1) : role[k + 1] = "none"
      /\ Len(args) >= i - t - 1
      /\ \A j \in 1..(i - t - 1) : args[Len(args) - (i - t - 1) + j] = t + j
      /\ \A j \in 1..Len(args) : args[j] # t
      /\ \A j \in 1..Len(calls) : calls[j].at < t
      /\ diags = <<>>
      /\ (pc = "done" => i = Len(argv))

C7_Witness ==
  /\ pc = "done"
  /\ Len(argv) = 4
  /\ role[2] = "terminator"
  /\ argv[3] = TokA
  /\ find_option(NameOf(argv[4])) # 0
  /\ Positional(State) = << argv[3], argv[4] >>

\* C8: when parse returns, the positional output is the tokens of
\* argv[1..argc-1] that were not read as a flag token, as an option's
\* value or as the terminator, each once and in their input order.
C8_PositionalIsSubsequence ==
  pc = "done" =>
    /\ \A k \in 1..Len(args) : 1 <= args[k] /\ args[k] < Len(argv)
    /\ \A k \in 1..(Len(args) - 1) : args[k] < args[k + 1]
    /\ { args[k] : k \in 1..Len(args) } =
         { k \in 1..(Len(argv) - 1) : role[k + 1] = "none" }

C8_Witness ==
  /\ pc = "done"
  /\ Len(args) = 2
  /\ args[2] > args[1] + 1
  /\ \E k \in 1..Len(argv) : role[k] = "flag"

\* nothing of argv after the cursor has been read
NothingAfterCursor ==
  /\ \A k \in (i + 1)..(Len(argv) - 1) : role[k + 1] = "none"
  /\ \A j \in 1..Len(calls) : calls[j].at <= i
  /\ \A j \in 1..Len(args) : args[j] < i

\* C9 as claimed: a parse that fails writes exactly one diagnostic, for the
\* failing token, then exits, and reads no later token.
C9_ExactlyOneDiagnostic ==
  pc = "exit1" => (Len(diags) = 1 /\ NothingAfterCursor)

\* C9 as amended: a parse writes diagnostics only when it exits with code
\* 1; it then has written one diagnostic for the failing token, or two (the
\* last member of the group, then the whole token) when grouping is
\* enabled and the token's flag name is a valid group, and it has read no
\* token after the failing one and its value.
C9_OneOrTwoDiagnostics ==
  /\ pc # "exit1" => diags = <<>>
  /\ pc = "exit1" =>
       /\ Len(diags) =
            IF group_singles /\ is_valid_group(NameOf(argv[diags[1].at + 1]))
            THEN 2 ELSE 1
       /\ \A j \in 1..Len(diags) :
            diags[j].at = diags[1].at /\ role[diags[j].at + 1] = "flag"
       /\ diags[Len(diags)].flag = NameOf(argv[diags[1].at + 1])
       /\ diags[1].at <= i
       /\ \A k \in (diags[1].at + 1)..i : role[k + 1] = "value"
       /\ NothingAfterCursor

C9_Witness ==
  /\ pc = "exit1"
  /\ group_singles
  /\ Len(diags) = 2
  /\ diags[1].flag = FlagC /\ diags[2].flag = <<"a", "b", "c">>
  /\ i + 1 < Len(argv)

\* C10: the dashes printed before the flag name of a diagnostic are `--`
\* exactly when the flag token in argv begins with two dashes.
C10_DashesAsInToken ==
  \A j \in 1..Len(diags) : diags[j].dash = Dashes(argv[diags[j].at + 1])

\* the Jaro score plus 0.1 for each shared leading character of what is
\* missing to 1, and no more than 1
Boosted(sim_j, l) ==
  Capped(Ratio(10 * sim_j.num + l * (sim_j.den - sim_j.num), 10 * sim_j.den))

ScoreIsBoostedJaro(sim_w, sim_j, l) ==
  /\ Leq(sim_j, sim_w)
  /\ Leq(Zero, sim_w) /\ Leq(sim_w, One)
  /\ Leq(sim_w, Boosted(sim_j, l)) /\ Leq(Boosted(sim_j, l), sim_w)

\* C11: the score jaro_winkler_similarity returns for a and b is the Jaro
\* score of a and b increased by a bonus of weight 0.1 per shared leading
\* character: it is not lower than the Jaro score, it does not fall when
\* the shared prefix is longer, and it lies within [0,1].
C11_ScoreIsJaroPlusPrefixBonus ==
  sim.returned =>
    ScoreIsBoostedJaro(sim.sim_w, jaro_similarity(sim.a, sim.b),
                       MismatchFrom(sim.a, sim.b, 0))

\* the token at argv[k] was read as a flag token that names an option
\* taking no value and carries an inline value
InlineOnValuelessAt(k) ==
  /\ role[k + 1] = "flag"
  /\ HasInline(argv[k + 1])
  /\ find_option(NameOf(argv[k + 1])) # 0
  /\ ~takes_value(options[find_option(NameOf(argv[k + 1]))])

\* C12: a token with an inline value, empty or not, on an option that takes
\* no value yields Unexpected_Value and the option's handler is not
\* invoked for it, so its destination stays as it was.
C12_InlineOnBoolIsUnexpectedValue ==
  \A k \in 1..(Len(argv) - 1) :
    InlineOnValuelessAt(k) =>
      /\ \E j \in 1..Len(diags) :
           diags[j].at = k /\ diags[j].about = Unexpected_Value
      /\ CallsAt(k) = <<>>

\* the calls of the handler of the option named flag made for the flag
\* token at argv[k]
CallsOf(flag, k) == SelectSeq(calls, LAMBDA c : c.at = k /\ c.flag = flag)

\* C13: for every flag token in argv, the handler of any one option is
\* invoked at most once, with grouping enabled or not and whether the
\* token succeeds or fails.
C13_AtMostOneCallPerToken ==
  \A k \in 1..(Len(argv) - 1) :
    \A flag \in {FlagA, FlagB, FlagC, FlagN} : Len(CallsOf(flag, k)) <= 1

====
